---- MODULE Spec2Model ----
(***************************************************************************)
(* Model of the Data-Storm weather tool: WeatherDataFetcher (fetcher.py)   *)
(* and WeatherAnalyzer (src/analyzer.py).                                  *)
(*                                                                         *)
(* Python values are tagged records.  A number is named by its decimal     *)
(* value in thousandths (21.665 is 21665); the statistics are computed on  *)
(* the binary64 values of these decimals, with exact IEEE 754 rounding.    *)
(* Text that is parsed (numeric strings) is a sequence of one-character    *)
(* strings; text that is only compared is a TLA+ string.                   *)
(*                                                                         *)
(* The model covers the bodies of the methods.  analyzer.py as it stands   *)
(* cannot be imported (line 3 imports list and dict from typing, and the   *)
(* annotations use List and Dict); the methods are modelled as written.    *)
(***************************************************************************)
EXTENDS Integers, Sequences, FiniteSets, TLC

VARIABLES
    \* ---- WeatherDataFetcher ----
    fetcher,      \* the Fetcher object: [alive, api_key]
    ctorArg,      \* argument of the last constructor call
    ctorResult,   \* "none" | "ok" | "ValueError"
    log,          \* one entry per fetch_current_weather call: [city, reqs]
    fresult,      \* outcome of the last fetch_current_weather call
    fnet,         \* what the network did for the last call
    \* ---- WeatherAnalyzer pipeline ----
    pc,           \* position of the caller in the pipeline
    data_list,    \* argument of data_to_dataframe
    df,           \* the table currently held by the caller
    prev,         \* the table held before the last clean_data call
    cleanCalls,   \* number of clean_data calls applied to df
    stats,        \* result of get_summary_statistics
    saveArg,      \* the stats argument of save_summary_to_json
    io,           \* what the filesystem did during save_summary_to_json
    file,         \* content of the file at filepath: [exists, text]
    file0,        \* content of that file before save_summary_to_json
    loaded,       \* mapping read back from the file
    aerr          \* error raised by the last Analyzer operation

fvars == <<fetcher, ctorArg, ctorResult, log, fresult, fnet>>
avars == <<pc, data_list, df, prev, cleanCalls, stats, saveArg, io, file, file0, loaded, aerr>>
vars == <<fetcher, ctorArg, ctorResult, log, fresult, fnet,
          pc, data_list, df, prev, cleanCalls, stats, saveArg, io, file, file0,
          loaded, aerr>>

(***************************************************************************)
(* Bounds                                                                  *)
(***************************************************************************)
MaxCalls == 2      \* fetch_current_weather calls per Fetcher
MaxRecords == 3    \* records in data_list
MaxCleans == 2     \* clean_data calls in one pipeline run

(***************************************************************************)
(* Python values of the Fetcher's arguments                                *)
(***************************************************************************)
PyStr(s) == [t |-> "str", s |-> s, n |-> 0]
PyInt(n) == [t |-> "int", s |-> "", n |-> n]
PyNone == [t |-> "none", s |-> "", n |-> 0]

\* Python truthiness: bool(x)
Truthy(x) ==
    CASE x.t = "str" -> x.s # ""
      [] x.t = "int" -> x.n # 0
      [] OTHER -> FALSE

\* isinstance(x, str)
IsStr(x) == x.t = "str"

KeyInputs == {PyStr(""), PyStr("k1"), PyStr("k2"), PyInt(7), PyNone}
CityInputs == {PyStr(""), PyStr("Kyiv"), PyStr("Nowhere"), PyInt(42)}

BASE_URL == "https://api.openweathermap.org/data/2.5/weather"

(***************************************************************************)
(* The network: what requests.get can do for one request                   *)
(***************************************************************************)
Statuses == {200, 401, 404, 500}

StatusText(s) ==
    CASE s = 200 -> "200"
      [] s = 401 -> "401"
      [] s = 404 -> "404"
      [] s = 500 -> "500"
      [] OTHER -> "0"

MainFull == [temp |-> 20, humidity |-> 50, pressure |-> 1000]
MainPartial == [humidity |-> 50, pressure |-> 1000]
MainNone == [x \in {} |-> 0]

\* json: "invalid" - not JSON; "null" - JSON null; "object" - a JSON object
BodyNotJson == [json |-> "invalid", keys |-> {}, main |-> MainNone]
BodyNull == [json |-> "null", keys |-> {}, main |-> MainNone]
BodyNoMain == [json |-> "object", keys |-> {"cod", "name"}, main |-> MainNone]
BodyPartial == [json |-> "object", keys |-> {"main", "name"}, main |-> MainPartial]
BodyFull == [json |-> "object", keys |-> {"main", "name"}, main |-> MainFull]
Bodies == {BodyNotJson, BodyNull, BodyNoMain, BodyPartial, BodyFull}

\* requests raises its own JSONDecodeError (a RequestException) from 2.27
\* on, and the standard library's ValueError subclass before.
JsonErrClasses == {"RequestsJSONDecodeError", "ValueError"}

NetOutcomes ==
    {[kind |-> "connfail", status |-> 0, body |-> BodyNotJson, jsonErr |-> "ValueError"]}
    \cup {[kind |-> "response", status |-> s, body |-> b, jsonErr |-> j] :
            s \in Statuses, b \in Bodies, j \in JsonErrClasses}

NoNet == [kind |-> "none", status |-> 0, body |-> BodyNotJson, jsonErr |-> "ValueError"]

(***************************************************************************)
(* Exceptions                                                              *)
(***************************************************************************)
\* direct base class of each exception class
Base(c) ==
    CASE c = "HTTPError" -> "RequestException"
      [] c = "ConnectionError" -> "RequestException"
      [] c = "RequestsJSONDecodeError" -> "RequestException"
      [] c = "RequestException" -> "Exception"
      [] c = "WeatherDataError" -> "Exception"
      [] c = "ValueError" -> "Exception"
      [] c = "KeyError" -> "Exception"
      [] c = "TypeError" -> "Exception"
      [] OTHER -> "object"

RECURSIVE IsSubclass(_, _)
IsSubclass(c, d) ==
    IF c = d THEN TRUE
    ELSE IF c = "object" THEN FALSE
    ELSE IsSubclass(Base(c), d)

NoRecord == [city |-> PyStr(""), temp |-> 0, humidity |-> 0, pressure |-> 0]
Raise(cls, msg) == [kind |-> "raise", cls |-> cls, msg |-> msg, record |-> NoRecord]
Return(rec) == [kind |-> "return", cls |-> "", msg |-> <<>>, record |-> rec]
NoResult == [kind |-> "none", cls |-> "", msg |-> <<>>, record |-> NoRecord]

\* a message mentions a phrase when the phrase's words occur in it in a row
Mentions(msg, phrase) ==
    \E i \in 0..(Len(msg) - Len(phrase)) :
        \A j \in 1..Len(phrase) : msg[i + j] = phrase[j]

(***************************************************************************)
(* WeatherDataFetcher                                                      *)
(***************************************************************************)
\* variant of InitRaises without the isinstance check
InitRaisesNoType(api_key) == ~Truthy(api_key)

\* __init__: the credential check; TRUE when the constructor raises
InitRaises(api_key) == ~Truthy(api_key) \/ ~IsStr(api_key)

\* the city check of fetch_current_weather; TRUE when it raises ValueError
CityRaises(city) == ~Truthy(city) \/ ~IsStr(city)

\* params of the GET request
Params(api_key, city) ==
    [url |-> BASE_URL, q |-> city, appid |-> api_key, units |-> "metric"]

\* first key of data['main'] the record construction fails on, "" if none
MissingKey(main) ==
    IF "temp" \notin DOMAIN main THEN "temp"
    ELSE IF "humidity" \notin DOMAIN main THEN "humidity"
    ELSE IF "pressure" \notin DOMAIN main THEN "pressure"
    ELSE ""

\* the body of the try block, given what the network did
TryBody(city, net) ==
    IF net.kind = "connfail"
    THEN Raise("ConnectionError", <<"Connection", "refused">>)
    ELSE IF net.status >= 400 /\ net.status < 600
    THEN Raise("HTTPError", <<StatusText(net.status), "Error", "for", "url">>)
    ELSE IF net.body.json = "invalid"
    THEN Raise(net.jsonErr, <<"Expecting", "value">>)
    ELSE IF net.body.json = "null"
    THEN Raise("TypeError", <<"argument", "of", "type", "NoneType", "is", "not", "iterable">>)
    ELSE IF "main" \notin net.body.keys
    THEN Raise("WeatherDataError",
               <<"API", "response", "is", "missing", "main", "weather", "data">>)
    ELSE IF MissingKey(net.body.main) # ""
    THEN Raise("KeyError", <<MissingKey(net.body.main)>>)
    ELSE Return([city |-> city,
                 temp |-> net.body.main["temp"],
                 humidity |-> net.body.main["humidity"],
                 pressure |-> net.body.main["pressure"]])

\* variant of Handle whose last clause does not carry the cause's text
HandleNoDetail(city, net, e) ==
    IF IsSubclass(e.cls, "HTTPError")
    THEN IF net.status = 404
         THEN Raise("WeatherDataError",
                    <<"City", city.s, "not", "found", "Error", "404">>)
         ELSE IF net.status = 401
         THEN Raise("WeatherDataError", <<"Invalid", "API", "Key", "Error", "401">>)
         ELSE Raise("WeatherDataError",
                    <<"API", "request", "failed", "with", "status", "code",
                      StatusText(net.status)>> \o e.msg)
    ELSE IF IsSubclass(e.cls, "RequestException")
    THEN Raise("WeatherDataError",
               <<"A", "connection", "error", "occurred">> \o e.msg)
    ELSE Raise("WeatherDataError", <<"An", "unexpected", "error", "occurred">>)

\* the except clauses, tried in order, for an exception e of the try block
Handle(city, net, e) ==
    IF IsSubclass(e.cls, "HTTPError")
    THEN IF net.status = 404
         THEN Raise("WeatherDataError",
                    <<"City", city.s, "not", "found", "Error", "404">>)
         ELSE IF net.status = 401
         THEN Raise("WeatherDataError", <<"Invalid", "API", "Key", "Error", "401">>)
         ELSE Raise("WeatherDataError",
                    <<"API", "request", "failed", "with", "status", "code",
                      StatusText(net.status)>> \o e.msg)
    ELSE IF IsSubclass(e.cls, "RequestException")
    THEN Raise("WeatherDataError",
               <<"A", "connection", "error", "occurred">> \o e.msg)
    ELSE IF IsSubclass(e.cls, "Exception")
    THEN Raise("WeatherDataError",
               <<"An", "unexpected", "error", "occurred">> \o e.msg)
    ELSE e

\* variant of fetch_current_weather that asks again after a connection failure
fetch_with_retry(api_key, city, net) ==
    IF CityRaises(city)
    THEN [out |-> Raise("ValueError",
                        <<"City", "name", "must", "be", "a", "non-empty", "string">>),
          reqs |-> <<>>]
    ELSE LET r == TryBody(city, net)
         IN [out |-> IF r.kind = "raise" THEN Handle(city, net, r) ELSE r,
             reqs |-> IF net.kind = "connfail"
                      THEN <<Params(api_key, city), Params(api_key, city)>>
                      ELSE <<Params(api_key, city)>>]

\* fetch_current_weather: the outcome and the requests it sends
fetch_current_weather(api_key, city, net) ==
    IF CityRaises(city)
    THEN [out |-> Raise("ValueError",
                        <<"City", "name", "must", "be", "a", "non-empty", "string">>),
          reqs |-> <<>>]
    ELSE LET r == TryBody(city, net)
         IN [out |-> IF r.kind = "raise" THEN Handle(city, net, r) ELSE r,
             reqs |-> <<Params(api_key, city)>>]

NoFetcher == [alive |-> FALSE, api_key |-> PyNone]

\* WeatherDataFetcher(api_key)
Construct ==
    /\ ~fetcher.alive
    /\ \E k \in KeyInputs :
        /\ ctorArg' = k
        /\ IF InitRaises(k)
           THEN /\ ctorResult' = "ValueError"
                /\ fetcher' = fetcher
           ELSE /\ ctorResult' = "ok"
                /\ fetcher' = [alive |-> TRUE, api_key |-> k]
    /\ UNCHANGED <<log, fresult, fnet>>
    /\ UNCHANGED avars

\* fetcher.fetch_current_weather(city), the provider answering with net
Fetch ==
    /\ fetcher.alive
    /\ Len(log) < MaxCalls
    /\ \E city \in CityInputs, net \in NetOutcomes :
        LET r == fetch_current_weather(fetcher.api_key, city, net)
        IN /\ fresult' = r.out
           /\ log' = Append(log, [city |-> city, reqs |-> r.reqs])
           /\ fnet' = IF r.reqs = <<>> THEN NoNet ELSE net
    /\ UNCHANGED <<fetcher, ctorArg, ctorResult>>
    /\ UNCHANGED avars


(***************************************************************************)
(* WeatherAnalyzer: values of the records' fields                          *)
(***************************************************************************)
\* n is the number in thousandths; s is the text of a str, character by
\* character
VInt(i) == [t |-> "int", n |-> i * 1000, s |-> <<>>]
VFloat(m) == [t |-> "float", n |-> m, s |-> <<>>]
VStr(chars) == [t |-> "str", n |-> 0, s |-> chars]
VNone == [t |-> "none", n |-> 0, s |-> <<>>]

\* a usual record, and the records that differ from it in one field
SampleRecord ==
    [city |-> "Kyiv", temp |-> VFloat(21665), humidity |-> VInt(100),
     pressure |-> VFloat(1013250)]

TempInputs == {VStr(<<"2", "2">>), VStr(<<"a", "b", "c">>)}
HumidityInputs == {VInt(0), VInt(101), VInt(-1), VNone}
PressureInputs == {VInt(0)}

RecordInputs ==
    {SampleRecord}
    \cup {[SampleRecord EXCEPT !.temp = v] : v \in TempInputs}
    \cup {[SampleRecord EXCEPT !.humidity = v] : v \in HumidityInputs}
    \cup {[SampleRecord EXCEPT !.pressure = v] : v \in PressureInputs}

RECURSIVE SeqsUpTo(_, _)
SeqsUpTo(S, n) ==
    IF n = 0 THEN {<<>>}
    ELSE LET shorter == SeqsUpTo(S, n - 1)
         IN shorter \cup {Append(q, x) : q \in {r \in shorter : Len(r) = n - 1}, x \in S}

\* what a caller passes as data_list: a list of records, a mapping (not a
\* sequence) or None
DataListInputs ==
    {[kind |-> "list", items |-> q] : q \in SeqsUpTo(RecordInputs, MaxRecords)}
    \cup {[kind |-> "dict", items |-> <<r>>] : r \in {SampleRecord}}
    \cup {[kind |-> "none", items |-> <<>>]}

(***************************************************************************)
(* pd.to_numeric(errors='coerce')                                          *)
(***************************************************************************)
Digits == {"0", "1", "2", "3", "4", "5", "6", "7", "8", "9"}

DigitVal(c) ==
    CASE c = "0" -> 0 [] c = "1" -> 1 [] c = "2" -> 2 [] c = "3" -> 3
      [] c = "4" -> 4 [] c = "5" -> 5 [] c = "6" -> 6 [] c = "7" -> 7
      [] c = "8" -> 8 [] c = "9" -> 9 [] OTHER -> 0

\* value of a digit string, most significant digit first
RECURSIVE DigitsVal(_)
DigitsVal(cs) ==
    IF cs = <<>> THEN 0
    ELSE 10 * DigitsVal(SubSeq(cs, 1, Len(cs) - 1)) + DigitVal(cs[Len(cs)])

NaN == [nan |-> TRUE, isint |-> FALSE, n |-> 0]
Num(isint, n) == [nan |-> FALSE, isint |-> isint, n |-> n]

\* a str parses as a whole number when it is a non-empty digit string
ParseStr(cs) ==
    IF cs # <<>> /\ \A i \in DOMAIN cs : cs[i] \in Digits
    THEN Num(TRUE, 1000 * DigitsVal(cs))
    ELSE NaN

\* one element: its numeric value, or NaN when it does not parse
ToNumeric(v) ==
    CASE v.t = "int" -> Num(TRUE, v.n)
      [] v.t = "float" -> Num(FALSE, v.n)
      [] v.t = "str" -> ParseStr(v.s)
      [] OTHER -> NaN

Cols == <<"temp", "humidity", "pressure">>
ColSet == {"temp", "humidity", "pressure"}

\* dtype of a converted column: int64 only when every element is a whole
\* number, float64 as soon as one is a float or NaN
ColDtype(items, col) ==
    IF \A i \in DOMAIN items :
          LET x == ToNumeric(items[i][col]) IN ~x.nan /\ x.isint
    THEN "int64"
    ELSE "float64"

Cell(x) == [nan |-> x.nan, n |-> x.n]

NoTable == [dtype |-> [c \in ColSet |-> "float64"], rows |-> <<>>]
NoErr == [cls |-> "", msg |-> <<>>]
AErr(msg) == [cls |-> "WeatherAnalysisError", msg |-> msg]

\* variant of data_to_dataframe with errors='raise': an element that does
\* not parse fails the call
data_to_dataframe_raise(dl) ==
    IF dl.kind = "none" \/ Len(dl.items) = 0 \/ dl.kind # "list"
       \/ \E i \in DOMAIN dl.items, c \in ColSet :
             dl.items[i][c].t = "str" /\ ToNumeric(dl.items[i][c]).nan
    THEN [err |-> AErr(<<"Error", "converting", "data", "to", "DataFrame">>),
          table |-> NoTable]
    ELSE [err |-> NoErr,
          table |->
            [dtype |-> [c \in ColSet |-> ColDtype(dl.items, c)],
             rows |-> [i \in DOMAIN dl.items |->
                         [idx |-> i - 1,
                          city |-> dl.items[i].city,
                          temp |-> Cell(ToNumeric(dl.items[i].temp)),
                          humidity |-> Cell(ToNumeric(dl.items[i].humidity)),
                          pressure |-> Cell(ToNumeric(dl.items[i].pressure))]]]]

\* data_to_dataframe: [err, table]
data_to_dataframe(dl) ==
    IF dl.kind = "none" \/ Len(dl.items) = 0 \/ dl.kind # "list"
    THEN [err |-> AErr(<<"Input", "data", "list", "cannot", "be", "empty", "or", "non-list">>),
          table |-> NoTable]
    ELSE [err |-> NoErr,
          table |->
            [dtype |-> [c \in ColSet |-> ColDtype(dl.items, c)],
             rows |-> [i \in DOMAIN dl.items |->
                         [idx |-> i - 1,
                          city |-> dl.items[i].city,
                          temp |-> Cell(ToNumeric(dl.items[i].temp)),
                          humidity |-> Cell(ToNumeric(dl.items[i].humidity)),
                          pressure |-> Cell(ToNumeric(dl.items[i].pressure))]]]]

(***************************************************************************)
(* clean_data                                                              *)
(***************************************************************************)
\* df.dropna(subset=[...]): rows with no missing value in the subset
DropNa(rows, subset) ==
    SelectSeq(rows, LAMBDA r : \A c \in subset : ~r[c].nan)

\* a comparison with NaN is False
Ge(x, k) == ~x.nan /\ x.n >= k
Le(x, k) == ~x.nan /\ x.n <= k
Gt(x, k) == ~x.nan /\ x.n > k

\* variant of HumidityFilter with both bounds exclusive
HumidityFilterExclusive(rows) ==
    SelectSeq(rows, LAMBDA r : Gt(r.humidity, 0) /\ Le(r.humidity, 100 * 1000 - 1))

HumidityFilter(rows) ==
    SelectSeq(rows, LAMBDA r : Ge(r.humidity, 0) /\ Le(r.humidity, 100 * 1000))

PressureFilter(rows) ==
    SelectSeq(rows, LAMBDA r : Gt(r.pressure, 0))

\* variant of clean_data that slices off the first surviving row
clean_data_skip_first(t) ==
    LET kept == PressureFilter(HumidityFilter(DropNa(t.rows, ColSet)))
    IN [dtype |-> t.dtype, rows |-> IF kept = <<>> THEN kept ELSE Tail(kept)]

clean_data(t) ==
    [dtype |-> t.dtype,
     rows |-> PressureFilter(HumidityFilter(DropNa(t.rows, ColSet)))]


(***************************************************************************)
(* IEEE 754 binary64 arithmetic, exact.  A natural number is the sequence  *)
(* of its base-256 digits, least significant first, without leading zero.  *)
(***************************************************************************)
Radix == 2 ^ 8

RECURSIVE LimbsOf(_)
LimbsOf(n) == IF n = 0 THEN <<>> ELSE <<n % Radix>> \o LimbsOf(n \div Radix)

RECURSIVE ValOf(_)
ValOf(a) == IF a = <<>> THEN 0 ELSE a[1] + Radix * ValOf(Tail(a))

RECURSIVE Trim(_)
Trim(a) ==
    IF a = <<>> THEN a
    ELSE IF a[Len(a)] = 0 THEN Trim(SubSeq(a, 1, Len(a) - 1))
    ELSE a

Limb(a, i) == IF i >= 1 /\ i <= Len(a) THEN a[i] ELSE 0
MinOf(a, b) == IF a <= b THEN a ELSE b

\* number of bits of a natural below Radix
RECURSIVE BitLen(_)
BitLen(n) == IF n = 0 THEN 0 ELSE 1 + BitLen(n \div 2)

\* number of bits of a
NumBits(a) == IF a = <<>> THEN 0 ELSE 8 * (Len(a) - 1) + BitLen(a[Len(a)])

\* a + b
RECURSIVE AddC(_, _, _, _)
AddC(a, b, i, carry) ==
    IF i > Len(a) /\ i > Len(b) THEN (IF carry = 1 THEN <<1>> ELSE <<>>)
    ELSE LET t == Limb(a, i) + Limb(b, i) + carry
         IN <<t % Radix>> \o AddC(a, b, i + 1, t \div Radix)

AddN(a, b) == AddC(a, b, 1, 0)

\* a - b, for a >= b
RECURSIVE SubC(_, _, _, _)
SubC(a, b, i, borrow) ==
    IF i > Len(a) THEN <<>>
    ELSE LET t == Limb(a, i) - Limb(b, i) - borrow
         IN <<t % Radix>> \o SubC(a, b, i + 1, IF t < 0 THEN 1 ELSE 0)

SubN(a, b) == Trim(SubC(a, b, 1, 0))

\* a < b
LessN(a, b) ==
    \/ Len(a) < Len(b)
    \/ /\ Len(a) = Len(b)
       /\ \E i \in 1..Len(a) :
             /\ a[i] < b[i]
             /\ \A j \in (i + 1)..Len(a) : a[j] = b[j]

\* a * k, k a small natural
RECURSIVE MulC(_, _, _, _)
MulC(a, k, i, carry) ==
    IF i > Len(a) THEN LimbsOf(carry)
    ELSE LET t == a[i] * k + carry
         IN <<t % Radix>> \o MulC(a, k, i + 1, t \div Radix)

MulSmall(a, k) == Trim(MulC(a, k, 1, 0))

\* a divided by the small natural d, from the most significant digit down:
\* quotient and remainder
RECURSIVE DivC(_, _, _, _, _)
DivC(a, d, i, rem, q) ==
    IF i = 0 THEN [q |-> Trim(q), r |-> rem]
    ELSE LET t == Radix * rem + a[i]
         IN DivC(a, d, i - 1, t % d, <<t \div d>> \o q)

DivSmall(a, d) == DivC(a, d, Len(a), 0, <<>>)

\* a * 2^k
Shl(a, k) ==
    IF a = <<>> THEN a
    ELSE [i \in 1..(k \div 8) |-> 0] \o MulSmall(a, 2 ^ (k % 8))

\* a divided by 2^k: quotient v, and st telling whether a remainder was lost
Shr(a, k) ==
    LET w == MinOf(k \div 8, Len(a))
        d == DivSmall(SubSeq(a, w + 1, Len(a)), 2 ^ (k % 8))
    IN [v |-> d.q, st |-> d.r # 0 \/ \E i \in 1..w : a[i] # 0]

\* a double: sign, 53-bit significand m (empty for zero), value m * 2^e
DZero == [neg |-> FALSE, m |-> <<>>, e |-> 0]

\* round the magnitude mag * 2^e (plus something below the last bit when
\* sticky) to 53 bits, ties to even
RoundTo53(neg, mag, e, sticky) ==
    IF mag = <<>> THEN DZero
    ELSE IF NumBits(mag) <= 53
    THEN [neg |-> neg, m |-> Shl(mag, 53 - NumBits(mag)), e |-> e - (53 - NumBits(mag))]
    ELSE LET k == NumBits(mag) - 53
             g == Shr(mag, k - 1)          \* 53 bits and the guard bit
             kept == DivSmall(g.v, 2)
             st == sticky \/ g.st
             up == kept.r = 1 /\ (st \/ kept.q[1] % 2 = 1)
             r == IF up THEN AddN(kept.q, <<1>>) ELSE kept.q
         IN IF NumBits(r) = 54
            THEN [neg |-> neg, m |-> DivSmall(r, 2).q, e |-> e + k + 1]
            ELSE [neg |-> neg, m |-> r, e |-> e + k]

\* the double nearest to n thousandths
FromMilli(n) ==
    LET d == DivSmall(Shl(LimbsOf(IF n < 0 THEN -n ELSE n), 72), 1000)
    IN RoundTo53(n < 0, d.q, -72, d.r # 0)

\* a + b
DAdd(a, b) ==
    IF a.m = <<>> THEN b
    ELSE IF b.m = <<>> THEN a
    ELSE LET e == MinOf(a.e, b.e)
             ma == Shl(a.m, a.e - e)
             mb == Shl(b.m, b.e - e)
         IN IF a.neg = b.neg THEN RoundTo53(a.neg, AddN(ma, mb), e, FALSE)
            ELSE IF ma = mb THEN DZero
            ELSE IF LessN(ma, mb) THEN RoundTo53(b.neg, SubN(mb, ma), e, FALSE)
            ELSE RoundTo53(a.neg, SubN(ma, mb), e, FALSE)

\* a / k, k a small positive integer
DDivInt(a, k) ==
    LET d == DivSmall(Shl(a.m, 16), k)
    IN RoundTo53(a.neg, d.q, a.e - 16, d.r # 0)

\* a * k, k a small positive integer
DMulInt(a, k) == RoundTo53(a.neg, MulSmall(a.m, k), a.e, FALSE)

\* the integer nearest to a, ties to even
DRint(a) ==
    IF a.m = <<>> THEN 0
    ELSE IF a.e >= 0 THEN (IF a.neg THEN -1 ELSE 1) * ValOf(Shl(a.m, a.e))
    ELSE LET g == Shr(a.m, -a.e - 1)       \* integer part and the first bit after it
             ip == DivSmall(g.v, 2)
             up == ip.r = 1 /\ (g.st \/ Limb(ip.q, 1) % 2 = 1)
         IN (IF a.neg THEN -1 ELSE 1) * (ValOf(ip.q) + IF up THEN 1 ELSE 0)

\* round(v, 2) of a numpy.float64: rint(v * 100) / 100, identified by its
\* number of hundredths
Round2H(a) == DRint(DMulInt(a, 100))

\* the sum of a column, added up from the first row to the last
RECURSIVE DSum(_)
DSum(q) == IF q = <<>> THEN DZero ELSE DAdd(DSum(SubSeq(q, 1, Len(q) - 1)), q[Len(q)])

(***************************************************************************)
(* get_summary_statistics                                                  *)
(***************************************************************************)
\* the non-missing values of a column, in row order (pandas skips NaN)
ColValues(rows, col) ==
    LET present == SelectSeq(rows, LAMBDA r : ~r[col].nan)
    IN [i \in DOMAIN present |-> present[i][col].n]

SeqMin(q) == CHOOSE x \in {q[i] : i \in DOMAIN q} : \A j \in DOMAIN q : x <= q[j]
SeqMax(q) == CHOOSE x \in {q[i] : i \in DOMAIN q} : \A j \in DOMAIN q : x >= q[j]

\* a statistic before rounding: a numpy.float64 d, or a numpy.int64 of i
\* thousandths
RawNaN == [t |-> "float64", nan |-> TRUE, d |-> DZero, i |-> 0]
RawFloat(d) == [t |-> "float64", nan |-> FALSE, d |-> d, i |-> 0]
RawInt(i) == [t |-> "int64", nan |-> FALSE, d |-> DZero, i |-> i]

\* a statistic: t is the numpy type of the value, n the value in thousandths
SNaN == [t |-> "float64", nan |-> TRUE, n |-> 0]
SVal(t, n) == [t |-> t, nan |-> FALSE, n |-> n]

\* round(v, 2): NaN stays NaN, a numpy integer is returned as it is
RoundStat(v) ==
    IF v.nan THEN SNaN
    ELSE IF v.t = "int64" THEN SVal("int64", v.i)
    ELSE SVal("float64", 10 * Round2H(v.d))

\* the numbers the records of RecordInputs carry, NaN aside
InputNumbers ==
    {ToNumeric(r[c]).n : r \in RecordInputs, c \in ColSet}

\* the float64 of each of them, computed once
DoubleOf == [n \in InputNumbers |-> FromMilli(n)]

\* the float64 mean of each column of them, computed once: the sum of the
\* column divided by the count
MeanOf ==
    [q \in SeqsUpTo(InputNumbers, MaxRecords) \ {<<>>} |->
        DDivInt(DSum([i \in DOMAIN q |-> DoubleOf[q[i]]]), Len(q))]

\* df[col].mean()
ColMean(t, col) ==
    LET vs == ColValues(t.rows, col)
    IN IF vs = <<>> THEN RawNaN ELSE RawFloat(MeanOf[vs])

\* a value of the column's dtype
ColValue(t, col, n) ==
    IF t.dtype[col] = "int64" THEN RawInt(n) ELSE RawFloat(DoubleOf[n])

\* df[col].min() and df[col].max()
ColMin(t, col) ==
    LET vs == ColValues(t.rows, col)
    IN IF vs = <<>> THEN RawNaN ELSE ColValue(t, col, SeqMin(vs))

ColMax(t, col) ==
    LET vs == ColValues(t.rows, col)
    IN IF vs = <<>> THEN RawNaN ELSE ColValue(t, col, SeqMax(vs))

StatKeys == <<"mean", "min", "max">>
EmptyStats == [c \in {} |-> [k \in {} |-> SNaN]]

\* variant of IsEmpty that only notices a missing table
IsEmptyNever(t) == FALSE

\* df.empty
IsEmpty(t) == Len(t.rows) = 0

\* get_summary_statistics: [err, stats]
get_summary_statistics(t) ==
    IF IsEmpty(t)
    THEN [err |-> AErr(<<"Cannot", "calculate", "statistics", "DataFrame", "is",
                         "empty", "after", "cleaning">>),
          stats |-> EmptyStats]
    ELSE [err |-> NoErr,
          stats |-> [c \in ColSet |->
                       [mean |-> RoundStat(ColMean(t, c)),
                        min |-> RoundStat(ColMin(t, c)),
                        max |-> RoundStat(ColMax(t, c))]]]


(***************************************************************************)
(* save_summary_to_json and reading the file back                          *)
(***************************************************************************)
\* the text of a JSON number: sign, whole part and the digits after the
\* point (as thousandths); nan is the literal NaN
NoLit == [nan |-> FALSE, neg |-> FALSE, whole |-> 0, frac |-> 0]
Punct(c) == [k |-> "punct", s |-> c, v |-> NoLit]
Key(name) == [k |-> "key", s |-> name, v |-> NoLit]
Number(lit) == [k |-> "num", s |-> "", v |-> lit]

Abs(n) == IF n < 0 THEN -n ELSE n

\* float.__repr__ as json.dump uses it
FloatRepr(v) ==
    IF v.nan THEN [nan |-> TRUE, neg |-> FALSE, whole |-> 0, frac |-> 0]
    ELSE [nan |-> FALSE, neg |-> v.n < 0,
          whole |-> Abs(v.n) \div 1000, frac |-> Abs(v.n) % 1000]

\* json.dump serializes float and its subclasses (numpy.float64 is one);
\* numpy.int64 is not an int and reaches JSONEncoder.default, which raises
Serializable(v) == v.t \in {"float64", "float"}

\* the chunks json.dump writes for entries e..9 of the mapping, in order,
\* until a value cannot be serialized: [ok, text]
RECURSIVE Encode(_, _, _)
Encode(st, e, acc) ==
    IF e > Len(Cols) * Len(StatKeys) THEN [ok |-> TRUE, text |-> acc]
    ELSE LET ci == ((e - 1) \div Len(StatKeys)) + 1
             ki == ((e - 1) % Len(StatKeys)) + 1
             v == st[Cols[ci]][StatKeys[ki]]
             pre == (IF e = 1 THEN <<Punct("{")>> ELSE <<>>)
                    \o (IF ki = 1 THEN <<Key(Cols[ci]), Punct("{")>> ELSE <<>>)
                    \o <<Key(StatKeys[ki])>>
             post == (IF ki = Len(StatKeys) THEN <<Punct("}")>> ELSE <<>>)
                     \o (IF e = Len(Cols) * Len(StatKeys) THEN <<Punct("}")>> ELSE <<>>)
         IN IF Serializable(v)
            THEN Encode(st, e + 1, acc \o pre \o <<Number(FloatRepr(v))>> \o post)
            ELSE [ok |-> FALSE, text |-> acc \o pre]

Take(q, n) == SubSeq(q, 1, IF n < Len(q) THEN n ELSE Len(q))

\* the filesystem during one call: open may fail; the device may run full
\* after accepting `room` chunks
IOOutcomes ==
    {[open |-> FALSE, full |-> FALSE, room |-> 0],
     [open |-> TRUE, full |-> FALSE, room |-> 0]}
    \cup {[open |-> TRUE, full |-> TRUE, room |-> k] : k \in {0, 4}}

NoIO == [open |-> FALSE, full |-> FALSE, room |-> 0]

SaveErr == AErr(<<"Error", "saving", "statistics", "to", "file">>)

\* save_summary_to_json: [err, file]
save_summary_to_json(st, f, env) ==
    IF DOMAIN st = {}
    THEN [err |-> AErr(<<"Statistics", "data", "is", "empty", "cannot", "save">>),
          file |-> f]
    ELSE IF ~env.open
    THEN [err |-> SaveErr, file |-> f]
    ELSE LET enc == Encode(st, 1, <<>>)
             cut == env.full /\ env.room < Len(enc.text)
             written == IF cut THEN Take(enc.text, env.room) ELSE enc.text
         IN [err |-> IF enc.ok /\ ~cut THEN NoErr ELSE SaveErr,
             file |-> [exists |-> TRUE, text |-> written]]

\* the number a JSON number literal denotes, as a Python float
LitValue(lit) ==
    [t |-> "float", nan |-> lit.nan,
     n |-> IF lit.nan THEN 0
           ELSE (IF lit.neg THEN -1 ELSE 1) * (lit.whole * 1000 + lit.frac)]

\* json.load of a complete document: walk the text, opening a mapping for
\* each top-level key and storing each inner key's number
RECURSIVE JsonLoad(_, _, _, _, _)
JsonLoad(text, i, depth, col, acc) ==
    IF i > Len(text) THEN acc
    ELSE LET tok == text[i]
         IN IF tok.k = "punct"
            THEN JsonLoad(text, i + 1, IF tok.s = "{" THEN depth + 1 ELSE depth - 1,
                          col, acc)
            ELSE IF tok.k = "key" /\ depth = 1
            THEN JsonLoad(text, i + 1, depth, tok.s,
                          (tok.s :> [k \in {} |-> LitValue(NoLit)]) @@ acc)
            ELSE IF tok.k = "key"
            THEN JsonLoad(text, i + 2, depth, col,
                          (col :> ((tok.s :> LitValue(text[i + 1].v)) @@ acc[col])) @@ acc)
            ELSE JsonLoad(text, i + 1, depth, col, acc)

NoFile == [exists |-> FALSE, text |-> <<>>]
OldFile == [exists |-> TRUE, text |-> <<Punct("{"), Punct("}")>>]


(***************************************************************************)
(* The caller's pipeline over one WeatherAnalyzer                          *)
(***************************************************************************)
NoDataList == [kind |-> "none", items |-> <<>>]

\* analyzer.data_to_dataframe(dl)
DataToDataframe ==
    /\ pc = "start"
    /\ \E dl \in DataListInputs :
        LET r == data_to_dataframe(dl)
        IN /\ data_list' = dl
           /\ aerr' = r.err
           /\ df' = r.table
           /\ pc' = IF r.err = NoErr THEN "table" ELSE "df_failed"
    /\ UNCHANGED <<prev, cleanCalls, stats, saveArg, io, file, file0, loaded>>
    /\ UNCHANGED fvars

\* df = analyzer.clean_data(df)
CleanData ==
    /\ pc = "table"
    /\ cleanCalls < MaxCleans
    /\ prev' = df
    /\ df' = clean_data(df)
    /\ cleanCalls' = cleanCalls + 1
    /\ aerr' = NoErr
    /\ UNCHANGED <<pc, data_list, stats, saveArg, io, file, file0, loaded>>
    /\ UNCHANGED fvars

\* stats = analyzer.get_summary_statistics(df)
GetSummaryStatistics ==
    /\ pc = "table"
    /\ LET r == get_summary_statistics(df)
       IN /\ aerr' = r.err
          /\ stats' = r.stats
          /\ pc' = IF r.err = NoErr THEN "stats" ELSE "stats_failed"
    /\ UNCHANGED <<data_list, df, prev, cleanCalls, saveArg, io, file, file0, loaded>>
    /\ UNCHANGED fvars

\* analyzer.save_summary_to_json(arg, filepath)
SaveSummaryToJson ==
    /\ pc = "stats"
    /\ \E arg \in {stats, EmptyStats}, env \in IOOutcomes :
        LET r == save_summary_to_json(arg, file, env)
        IN /\ saveArg' = arg
           /\ io' = env
           /\ file0' = file
           /\ file' = r.file
           /\ aerr' = r.err
           /\ pc' = IF r.err = NoErr THEN "saved" ELSE "save_failed"
    /\ UNCHANGED <<data_list, df, prev, cleanCalls, stats, loaded>>
    /\ UNCHANGED fvars

\* the caller reads the file back with json.load
ReadBack ==
    /\ pc = "saved"
    /\ loaded' = JsonLoad(file.text, 1, 0, "", EmptyStats)
    /\ pc' = "loaded"
    /\ UNCHANGED <<data_list, df, prev, cleanCalls, stats, saveArg, io, file, file0, aerr>>
    /\ UNCHANGED fvars

(***************************************************************************)
(* Specifications                                                          *)
(***************************************************************************)
InitFetcher ==
    /\ fetcher = NoFetcher
    /\ ctorArg = PyNone
    /\ ctorResult = "none"
    /\ log = <<>>
    /\ fresult = NoResult
    /\ fnet = NoNet

InitAnalyzer ==
    /\ pc = "start"
    /\ data_list = NoDataList
    /\ df = NoTable
    /\ prev = NoTable
    /\ cleanCalls = 0
    /\ stats = EmptyStats
    /\ saveArg = EmptyStats
    /\ io = NoIO
    /\ file \in {NoFile, OldFile}
    /\ file0 = file
    /\ loaded = EmptyStats
    /\ aerr = NoErr

Init == InitFetcher /\ InitAnalyzer

NextFetcher == Construct \/ Fetch
NextAnalyzer ==
    \/ DataToDataframe
    \/ CleanData
    \/ GetSummaryStatistics
    \/ SaveSummaryToJson
    \/ ReadBack

\* a caller using the Fetcher
SpecFetcher == Init /\ [][NextFetcher]_vars
\* a caller running the Analyzer pipeline
SpecAnalyzer == Init /\ [][NextAnalyzer]_vars


(***************************************************************************)
(* Properties                                                              *)
(***************************************************************************)
\* the predicate of a cleaned row, as the data model states it
RowValid(r) ==
    /\ ~r.temp.nan /\ ~r.humidity.nan /\ ~r.pressure.nan
    /\ 0 <= r.humidity.n /\ r.humidity.n <= 100 * 1000
    /\ r.pressure.n > 0

\* C1: clean_data(t) is exactly the subsequence of t's rows that have no
\* missing temp, humidity or pressure, 0 <= humidity <= 100 and
\* pressure > 0: every retained row is an unaltered row of t satisfying the
\* predicate, every such row of t is retained, and the order is that of t.
C1_CleanIsExactFilter ==
    cleanCalls >= 1 =>
        /\ \A i \in DOMAIN df.rows :
              /\ RowValid(df.rows[i])
              /\ \E j \in DOMAIN prev.rows : prev.rows[j] = df.rows[i]
        /\ \A j \in DOMAIN prev.rows :
              RowValid(prev.rows[j]) =>
                  \E i \in DOMAIN df.rows : df.rows[i] = prev.rows[j]
        /\ \A i, k \in DOMAIN df.rows : i < k => df.rows[i].idx < df.rows[k].idx
        /\ Len(df.rows) <= Len(prev.rows)

\* a first cleaning that dropped the first of two rows and kept the second,
\* whose humidity is on the upper boundary
C1_Witness ==
    /\ cleanCalls = 1
    /\ Len(prev.rows) >= 2
    /\ Len(df.rows) = Len(prev.rows) - 1
    /\ ~RowValid(prev.rows[1])
    /\ df.rows[1].idx = 1
    /\ df.rows[1].humidity.n = 100 * 1000

\* C2: clean_data is idempotent: cleaning an already cleaned table returns
\* the same table.
C2_CleanIdempotent == cleanCalls >= 2 => df = prev

\* a second cleaning of a table whose first cleaning dropped a row and kept
\* one
C2_Witness ==
    /\ cleanCalls = 2
    /\ Len(df.rows) >= 1
    /\ Len(data_list.items) > Len(df.rows)

StatsPcs == {"stats", "saved", "save_failed", "loaded"}

\* C3: over a non-empty cleaned table, the rounded statistics of each
\* indicator satisfy min <= mean <= max.
C3_MinMeanMax ==
    (pc \in StatsPcs /\ cleanCalls >= 1) =>
        \A c \in ColSet :
            /\ ~stats[c].min.nan /\ ~stats[c].mean.nan /\ ~stats[c].max.nan
            /\ stats[c].min.n <= stats[c].mean.n
            /\ stats[c].mean.n <= stats[c].max.n

\* C4: a call with an empty or non-string city raises ValueError and sends
\* no request; every other call sends exactly one request, whatever the
\* provider does.
C4_OneRequestPerCall ==
    /\ \A i \in DOMAIN log :
          Len(log[i].reqs) = IF IsStr(log[i].city) /\ log[i].city.s # "" THEN 1 ELSE 0
    /\ (log # <<>> /\ log[Len(log)].reqs = <<>>) =>
          /\ fresult.kind = "raise"
          /\ fresult.cls = "ValueError"
          /\ fnet = NoNet

\* a call with an empty city followed by a call that met a connection
\* failure
C4_Witness ==
    /\ Len(log) >= 2
    /\ log[Len(log) - 1].city = PyStr("")
    /\ log[Len(log)].city = PyStr("Kyiv")
    /\ fnet.kind = "connfail"
    /\ fresult.kind = "raise"

StructEq(a, b) ==
    /\ DOMAIN a = DOMAIN b
    /\ \A c \in DOMAIN a :
          /\ DOMAIN a[c] = DOMAIN b[c]
          /\ \A k \in DOMAIN a[c] :
                a[c][k].nan = b[c][k].nan /\ a[c][k].n = b[c][k].n

\* C6: saving any statistics mapping that get_summary_statistics returned
\* and reading the file back yields a structurally identical mapping (the
\* filesystem not failing).
C6_RoundTrip ==
    /\ (pc \in {"saved", "save_failed", "loaded"} /\ saveArg = stats
        /\ io.open /\ ~io.full) => pc # "save_failed"
    /\ pc = "loaded" => StructEq(saveArg, loaded)

\* C7: whenever save_summary_to_json fails, a file that existed at filepath
\* holds what it held before the call.
C7_SaveAtomic == (pc = "save_failed" /\ file0.exists) => file = file0

\* C8: data_to_dataframe fails with the analysis error on an empty or
\* non-sequence argument; on a non-empty list it returns one row per record
\* in order, a value that does not parse being missing in its row and the
\* row's other fields being kept.
IsNumericText(cs) == cs # <<>> /\ \A i \in DOMAIN cs : cs[i] \in Digits
Parses(v) == v.t \in {"int", "float"} \/ (v.t = "str" /\ IsNumericText(v.s))

C8_DataframeCoercion ==
    pc # "start" =>
        /\ (data_list.kind # "list" \/ data_list.items = <<>>) =>
              pc = "df_failed" /\ aerr.cls = "WeatherAnalysisError"
        /\ (data_list.kind = "list" /\ data_list.items # <<>>) => pc # "df_failed"
        /\ (pc = "table" /\ cleanCalls = 0) =>
              /\ Len(df.rows) = Len(data_list.items)
              /\ \A i \in DOMAIN df.rows :
                    /\ df.rows[i].idx = i - 1
                    /\ df.rows[i].city = data_list.items[i].city
                    /\ \A c \in ColSet :
                          /\ df.rows[i][c].nan = ~Parses(data_list.items[i][c])
                          /\ data_list.items[i][c].t \in {"int", "float"} =>
                                df.rows[i][c].n = data_list.items[i][c].n

\* a table built from a record whose temp is the text "abc": the row is
\* there, temp missing, humidity kept
C8_Witness ==
    /\ pc = "table"
    /\ cleanCalls = 0
    /\ \E i \in DOMAIN df.rows :
          /\ data_list.items[i].temp = VStr(<<"a", "b", "c">>)
          /\ df.rows[i].temp.nan
          /\ ~df.rows[i].humidity.nan
          /\ df.rows[i].city = "Kyiv"

\* C9: get_summary_statistics fails with the analysis error exactly when
\* the table has no rows; otherwise it returns the three indicators, each
\* with mean, min and max.  Records that all fail cleaning end in the error.
C9_StatsShape ==
    /\ pc = "stats_failed" =>
          /\ Len(df.rows) = 0
          /\ aerr.cls = "WeatherAnalysisError"
          /\ stats = EmptyStats
    /\ pc \in StatsPcs =>
          /\ Len(df.rows) >= 1
          /\ DOMAIN stats = {"temp", "humidity", "pressure"}
          /\ \A c \in DOMAIN stats : DOMAIN stats[c] = {"mean", "min", "max"}

\* records that all failed cleaning: the statistics call raised
C9_Witness ==
    /\ pc = "stats_failed"
    /\ cleanCalls >= 1
    /\ Len(data_list.items) >= 1
    /\ Len(df.rows) = 0

\* C10: a Fetcher exists only with a non-empty string credential, the one
\* given at construction; a failed construction leaves no Fetcher; no call
\* changes the credential; every request carries q = the call's non-empty
\* city, appid = the credential and units = metric.
C10_Credential ==
    /\ fetcher.alive =>
          /\ ctorResult = "ok"
          /\ IsStr(fetcher.api_key) /\ fetcher.api_key.s # ""
          /\ fetcher.api_key = ctorArg
    /\ ctorResult = "ValueError" =>
          ~fetcher.alive /\ (~IsStr(ctorArg) \/ ctorArg.s = "")
    /\ ~fetcher.alive => log = <<>>
    /\ \A i \in DOMAIN log : \A j \in DOMAIN log[i].reqs :
          LET r == log[i].reqs[j]
          IN /\ r.url = BASE_URL
             /\ r.q = log[i].city
             /\ IsStr(r.q) /\ r.q.s # ""
             /\ r.appid = ctorArg
             /\ r.units = "metric"

\* two calls that each sent a request, the first answered, the second not
C10_Witness ==
    /\ fetcher.alive
    /\ Len(log) >= 2
    /\ log[1].reqs # <<>>
    /\ log[2].reqs # <<>>
    /\ log[2].reqs[1].appid = PyStr("k2")
    /\ fresult.kind = "raise"

====
